---- MODULE Spec2Model ----
(***************************************************************************)
(* A model of the audio sentence detector.                                 *)
(*                                                                         *)
(* Three classes of the repository are modelled, selected by the field     *)
(* options.variant:                                                        *)
(*   "rms"  src/src/index.js:7    silence by RMS only, four-factor score   *)
(*   "vadp" src/src/index.js:298  RMS + VAD, no scoring, scratch FFT       *)
(*                                buffers, alignToAudioBoundaries          *)
(*   "vad"  src/unnamed/part_000  RMS + VAD, five-factor score, merge      *)
(*                                                                         *)
(* Units.  Times are integers in ticks, TU ticks to the second; every      *)
(* division the code performs on a time is exact in ticks for the inputs   *)
(* of the model (the state predicate ExactTimes checks this).  Amplitudes  *)
(* and RMS values are in thousandths.  Scores are in thousandths, a final  *)
(* probability in units of 1/100000.  The IEEE value NaN and the           *)
(* JavaScript value undefined are the two sentinels NaN and Undefined.     *)
(***************************************************************************)
EXTENDS Integers, Sequences, FiniteSets, TLC

\* ---------------------------------------------------------------- units

TU == 2520 * 20
Sec(milli) == (milli * TU) \div 1000

NaN == 0 - 1000000001
Undefined == 0 - 1000000002
IsNum(x) == x # NaN /\ x # Undefined

Min(a, b) == IF a < b THEN a ELSE b
Max(a, b) == IF a > b THEN a ELSE b

\* Math.max(0, Math.min(1, x)) on a value in thousandths: NaN stays NaN.
Clamp01(x) == IF x = NaN THEN NaN ELSE Max(0, Min(1000, x))

\* a / b on non-negative numbers scaled by `scale`; 0/0 is NaN, x/0 (x > 0) is
\* Infinity, which every caller compares or clamps: it is returned as a large number.
Infinity == 1000 * 1000 * 1000
FDiv(a, b, scale) ==
    IF a = NaN \/ b = NaN THEN NaN
    ELSE IF b = 0 THEN (IF a = 0 THEN NaN ELSE Infinity)
    ELSE (a * scale) \div b

\* x > y, x < y in IEEE: false when either side is NaN.
FGt(x, y) == x # NaN /\ y # NaN /\ x > y
FLt(x, y) == x # NaN /\ y # NaN /\ x < y

RECURSIVE IsPow2(_)
IsPow2(n) == IF n <= 0 THEN FALSE
             ELSE IF n = 1 THEN TRUE
             ELSE IF n % 2 = 1 THEN FALSE
             ELSE IsPow2(n \div 2)

RECURSIVE SqrtSearch(_, _, _)
SqrtSearch(x, lo, hi) ==
    IF lo >= hi THEN lo
    ELSE LET mid == (lo + hi + 1) \div 2
         IN IF mid * mid <= x THEN SqrtSearch(x, mid, hi) ELSE SqrtSearch(x, lo, mid - 1)
\* floor(Math.sqrt(x)) for 0 <= x <= 1000000
ISqrt(x) == SqrtSearch(x, 0, 1000)

\* ---------------------------------------------------------------- audio

(* The sample buffer.  A buffer is a sequence of chunks of ChunkSamples      *)
(* samples, each chunk of one kind of signal, cut to `len` samples.  A kind  *)
(* fixes the amplitude and sign of its samples and its magnitude spectrum:   *)
(*   "Z" digital silence           "H" a hum below the silence threshold     *)
(*   "T" a steady 200 Hz tone      "V" voiced speech    "W" louder speech    *)
ChunkSamples == 2 * 4
Kinds == {"Z", "H", "T", "V", "W"}

Amp(kind) == CASE kind = "Z" -> 0
               [] kind = "H" -> 4
               [] kind = "T" -> 354
               [] kind = "V" -> 300
               [] kind = "W" -> 600

KindAt(a, k) == a.kinds[(k \div ChunkSamples) + 1]

\* The sample at index k (0-based), signed.
Sample(a, k) ==
    LET kind == KindAt(a, k)
    IN CASE kind = "Z" -> 0
         [] kind = "H" -> IF k % 2 = 0 THEN 4 ELSE 0 - 4
         [] kind = "T" -> 354
         [] kind \in {"V", "W"} ->
              IF (k \div 4) % 2 = 0 THEN Amp(kind) ELSE 0 - Amp(kind)

\* Array.prototype.slice(lo, hi) bounds on a buffer of n samples.
SliceLo(lo, n) == Max(0, Min(lo, n))
SliceHi(lo, hi, n) == Max(SliceLo(lo, n), Min(hi, n))

\* The sum over the samples lo .. hi-1 of value[kind of the sample], taken a
\* chunk at a time: the samples of a chunk are of one kind.
RECURSIVE KindSum(_, _, _, _)
KindSum(a, lo, hi, value) ==
    IF lo >= hi THEN 0
    ELSE LET next == Min(hi, ((lo \div ChunkSamples) + 1) * ChunkSamples)
         IN (next - lo) * value[KindAt(a, lo)] + KindSum(a, next, hi, value)

\* The sum of the squares of the samples lo .. hi-1.
SquareOf == [kind \in Kinds |-> Amp(kind) * Amp(kind)]
SumSq(a, lo, hi) == KindSum(a, lo, hi, SquareOf)

\* Math.sqrt(window.reduce((sum, s) => sum + s * s, 0) / window.length)
RMS(a, lo, hi) ==
    IF hi <= lo THEN NaN ELSE ISqrt(SumSq(a, lo, hi) \div (hi - lo))

\* -------------------------------------------------------------- options

DefaultOptions ==
    [minSilenceDuration |-> Sec(500), silenceThreshold |-> 10,
     minSentenceLength |-> Sec(1000), maxSentenceLength |-> Sec(15000),
     windowSize |-> 2048, idealSentenceLength |-> Sec(5000),
     idealSilenceDuration |-> Sec(800), allowGaps |-> 1,
     minSegmentLength |-> 0, alignToAudioBoundaries |-> 0,
     fundamentalFreqMin |-> 85, fundamentalFreqMax |-> 255,
     voiceActivityThreshold |-> 400, zeroCrossingRateThreshold |-> 300]

formantFreqRanges == << <<270, 730>>, <<840, 2290>>, <<1690, 3010>> >>

\* An option value is a number or Undefined; the booleans true and false of an
\* option are kept as 1 and 0.  Truthy is JavaScript's truthiness of a value.
Truthy(x) == x # Undefined /\ x # NaN /\ x # 0

\* JavaScript's  x || d : the default replaces every falsy x (undefined, 0, false).
OrDefault(x, d) == IF Truthy(x) THEN x ELSE d

\* The options object a constructor builds from the supplied options o, in
\* which an omitted option is Undefined.  The "rms" class knows seven options;
\* the "vadp" class has no idealSentenceLength / idealSilenceDuration.
Constructor(variant, o) ==
    [variant |-> variant,
     minSilenceDuration |-> OrDefault(o.minSilenceDuration, DefaultOptions.minSilenceDuration),
     silenceThreshold |-> OrDefault(o.silenceThreshold, DefaultOptions.silenceThreshold),
     minSentenceLength |-> OrDefault(o.minSentenceLength, DefaultOptions.minSentenceLength),
     maxSentenceLength |-> OrDefault(o.maxSentenceLength, DefaultOptions.maxSentenceLength),
     windowSize |-> OrDefault(o.windowSize, DefaultOptions.windowSize),
     idealSentenceLength |->
         IF variant = "vadp" THEN Undefined
         ELSE OrDefault(o.idealSentenceLength, DefaultOptions.idealSentenceLength),
     idealSilenceDuration |->
         IF variant = "vadp" THEN Undefined
         ELSE OrDefault(o.idealSilenceDuration, DefaultOptions.idealSilenceDuration),
     allowGaps |->
         IF variant = "rms" THEN Undefined
         ELSE IF o.allowGaps # Undefined THEN o.allowGaps ELSE DefaultOptions.allowGaps,
     minSegmentLength |->
         IF variant = "rms" THEN Undefined
         ELSE OrDefault(o.minSegmentLength, DefaultOptions.minSegmentLength),
     alignToAudioBoundaries |->
         IF variant = "rms" THEN Undefined
         ELSE OrDefault(o.alignToAudioBoundaries, DefaultOptions.alignToAudioBoundaries),
     fundamentalFreqMin |-> DefaultOptions.fundamentalFreqMin,
     fundamentalFreqMax |-> DefaultOptions.fundamentalFreqMax,
     voiceActivityThreshold |-> DefaultOptions.voiceActivityThreshold,
     zeroCrossingRateThreshold |-> DefaultOptions.zeroCrossingRateThreshold]

\* The value of supplied in the behaviours that start from a built detector.
NotFollowed == [variant |-> "unknown"]

\* The options the later stages read.  The "rms" class has no gap handling,
\* alignment or merge pass: its boundaries are those of allowGaps = true.
AllowGaps(opt) == opt.variant = "rms" \/ Truthy(opt.allowGaps)
AlignToAudioBoundaries(opt) == opt.variant # "rms" /\ Truthy(opt.alignToAudioBoundaries)
MinSegmentLength(opt) == IF opt.variant = "rms" THEN 0 ELSE opt.minSegmentLength

\* ------------------------------------------------------ spectral engine

(* The magnitude spectrum of a window is kept as NumBands bands at fixed    *)
(* frequencies.  performFFT is not computed bin by bin: the spectrum of a   *)
(* window is the sum, over its samples, of the sample's amplitude times the *)
(* spectral profile of its kind.  On a window whose length is not a power   *)
(* of two the code's arrays are indexed out of range: bins of the spectrum  *)
(* are NaN or missing, and every band is taken as NaN.                      *)
BandFreq == <<50, 200, 500, 800, 1500, 2000, 2500, 5000>>
NumBands == Len(BandFreq)
Bands == 1..NumBands

Profile(kind) ==
    CASE kind = "Z" -> <<0, 0, 0, 0, 0, 0, 0, 0>>
      [] kind = "H" -> <<4, 1, 1, 1, 1, 1, 0, 1>>
      [] kind = "T" -> <<0, 10, 0, 0, 0, 0, 0, 0>>
      [] kind \in {"V", "W"} -> <<0, 4, 2, 0, 2, 0, 2, 0>>

\* The magnitude of band b over the samples lo .. hi-1.
BandOf == [b \in Bands |-> [kind \in Kinds |-> Amp(kind) * Profile(kind)[b]]]
BandSum(a, lo, hi, b) == KindSum(a, lo, hi, BandOf[b])

performFFT(a, lo, hi) ==
    IF hi - lo = 1 THEN [b \in Bands |-> 0]
    ELSE IF ~IsPow2(hi - lo) THEN [b \in Bands |-> NaN]
    ELSE [b \in Bands |-> BandSum(a, lo, hi, b)]

\* The length of the scratch arrays of this.fftBuffers once performFFT of the
\* "vadp" class has tested them: they are rebuilt unless their length is n.
ScratchLength(buffers, n) ==
    IF buffers = Undefined \/ buffers # n THEN n ELSE buffers

\* performFFT of the "vadp" class, which works in the scratch arrays: with
\* arrays of another length than the window, the window function and the
\* samples are read out of range and the magnitudes hold NaN.
performFFTScratch(buffers, a, lo, hi) ==
    IF ScratchLength(buffers, hi - lo) # hi - lo THEN [b \in Bands |-> NaN]
    ELSE performFFT(a, lo, hi)

\* A sum of numbers one of which is NaN is NaN.
HasNaN(mags) == \E b \in Bands : mags[b] = NaN

RECURSIVE PlainSum(_, _)
PlainSum(f, b) == IF b = 0 THEN 0 ELSE f[b] + PlainSum(f, b - 1)

\* The sum over the bands b of mags[b] * weight[b].
SpectrumSum(mags, weight) ==
    IF HasNaN(mags) THEN NaN
    ELSE PlainSum([b \in Bands |-> mags[b] * weight[b]], NumBands)

MagSum(mags) == SpectrumSum(mags, [b \in Bands |-> 1])
WeightedSum(mags) == SpectrumSum(mags, BandFreq)

\* ------------------------------------------------ voice activity detector

RECURSIVE Crossings(_, _, _)
Crossings(a, lo, hi) ==
    IF lo + 1 >= hi THEN 0
    ELSE (IF (Sample(a, lo + 1) >= 0 /\ Sample(a, lo) < 0)
             \/ (Sample(a, lo + 1) < 0 /\ Sample(a, lo) >= 0) THEN 1 ELSE 0)
         + Crossings(a, lo + 1, hi)

\* crossings / (buffer.length - 1), in thousandths
calculateZeroCrossingRate(a, lo, hi) == FDiv(Crossings(a, lo, hi), hi - lo - 1, 1000)

\* sum === 0 ? 0 : weightedSum / sum, in Hz
calculateSpectralCentroid(mags) ==
    IF MagSum(mags) = 0 THEN 0
    ELSE FDiv(WeightedSum(mags), MagSum(mags), 1)

\* The energy of the bands between min and max Hz.
RangeEnergy(mags, min, max) ==
    SpectrumSum(mags, [b \in Bands |->
                          IF BandFreq[b] >= min /\ BandFreq[b] <= max THEN 1 ELSE 0])

\* The three formant energies, each divided by the total energy (thousandths).
detectFormants(mags) ==
    [f \in 1..3 |->
        FDiv(RangeEnergy(mags, formantFreqRanges[f][1], formantFreqRanges[f][2]),
             MagSum(mags), 1000)]

\* Ten times the weight of a band in calculateVoiceBandEnergy.
BandWeight(opt, b) ==
    LET f == BandFreq[b]
    IN IF ~(f >= opt.fundamentalFreqMin /\ f <= formantFreqRanges[3][2]) THEN 0
       ELSE IF \E r \in 1..3 : f >= formantFreqRanges[r][1] /\ f <= formantFreqRanges[r][2]
            THEN 15
       ELSE IF f >= opt.fundamentalFreqMin /\ f <= opt.fundamentalFreqMax THEN 20
       ELSE 10

\* voiceBandEnergy / totalEnergy, in thousandths
calculateVoiceBandEnergy(opt, mags) ==
    LET total == MagSum(mags)
    IN FDiv(SpectrumSum(mags, [b \in Bands |-> BandWeight(opt, b)]),
            IF total = NaN THEN NaN ELSE total * 10, 1000)

zcrScore(opt, a, lo, hi) ==
    LET zcr == calculateZeroCrossingRate(a, lo, hi)
    IN IF FGt(zcr, 100) /\ FLt(zcr, opt.zeroCrossingRateThreshold) THEN 1 ELSE 0
centroidScore(mags) ==
    LET c == calculateSpectralCentroid(mags)
    IN IF FGt(c, 100) /\ FLt(c, 3000) THEN 1 ELSE 0
\* The number of formants whose normalised energy exceeds 0.1 (formantScore * 3).
formantCount(mags) ==
    LET formantScores == detectFormants(mags)
    IN Cardinality({f \in 1..3 : FGt(formantScores[f], 100)})
energyScore(opt, mags) ==
    IF FGt(calculateVoiceBandEnergy(opt, mags), opt.voiceActivityThreshold) THEN 1 ELSE 0

\* finalScore > 0.6 with weights [0.3, 0.2, 0.3, 0.2] for zcr, centroid,
\* formants, energy: both sides multiplied by 300.
finalScore300(z, c, fcount, e) == 90 * z + 60 * c + 30 * fcount + 60 * e
\* The one combination of scores whose sum in double arithmetic lies on the
\* other side of 0.6 than the exact sum: 0 * 0.3 + 1 * 0.2 + (2 / 3) * 0.3 +
\* 1 * 0.2 is 0.6000000000000001, where the exact sum is 0.6.
RoundsAbove(z, c, fcount, e) == z = 0 /\ c = 1 /\ fcount = 2 /\ e = 1

\* return finalScore > 0.6
isVoiceDecision(z, c, fcount, e) ==
    \/ finalScore300(z, c, fcount, e) > 180
    \/ finalScore300(z, c, fcount, e) = 180 /\ RoundsAbove(z, c, fcount, e)

isVoiceSegment(opt, buffers, a, lo, hi) ==
    LET mags == IF opt.variant = "vadp" THEN performFFTScratch(buffers, a, lo, hi)
                ELSE performFFT(a, lo, hi)
    IN isVoiceDecision(zcrScore(opt, a, lo, hi), centroidScore(mags),
                       formantCount(mags), energyScore(opt, mags))

\* ------------------------------------------------------------- the state

VARIABLES
    scores,               \* isVoiceSegment: the four feature scores of the window under test
    channelData,          \* the channels of a decoded file, each its samples or a buffer of chunks
    monoData,             \* convertToMono: the returned samples
    supplied,             \* the argument of the constructor, where the construction is followed
    options,              \* this.options of the detector instance
    fftBuffers,           \* this.fftBuffers ("vadp" class): the length the scratch arrays have
    audio,                \* audioData of the call in progress
    sampleRate,           \* its sample rate, samples per second
    pc,                   \* the position of the call in progress
    i,                    \* detectSilentRegions: the loop index, a sample index
    currentSilenceStart,  \* detectSilentRegions: null (Undefined) or a sample index
    maxRMSInSilence,      \* detectSilentRegions
    voiceActivityBuffer,  \* detectSilentRegions: the recent VAD decisions
    silentRegions,        \* the regions found so far; after the scan, the merged regions
    ri,                   \* findSentenceBoundaries: the loop index, 1-based
    lastEnd,              \* findSentenceBoundaries
    sentences,            \* the sentences built so far; at "done", the returned list
    calls,                \* the number of calls of detectSentences completed
    returned              \* what the completed calls were given and returned, in order

vars == <<scores, channelData, monoData, supplied, options, fftBuffers, audio, sampleRate, pc, i,
          currentSilenceStart,
          maxRMSInSilence, voiceActivityBuffer, silentRegions, ri, lastEnd,
          sentences, calls, returned>>

\* Seconds, in ticks, of a count of samples: n / sampleRate.
SamplesToTime(n, sr) == (n * TU) \div sr
totalDuration(a, sr) == SamplesToTime(a.len, sr)

\* ------------------------------------------------------ silence detector

\* Math.floor(0.1 * sampleRate / windowSize)
smoothingBufferSize(opt, sr) == sr \div (10 * opt.windowSize)

\* push, then shift while longer than the smoothing size (one shift per push)
PushDecision(buf, isVoice, size) ==
    LET pushed == Append(buf, isVoice)
    IN IF Len(pushed) > size THEN Tail(pushed) ELSE pushed

\* voiceActivityBuffer.filter(v => v).length / voiceActivityBuffer.length, thousandths
voiceActivityRatio(buf) ==
    FDiv(Cardinality({k \in 1..Len(buf) : buf[k]}), Len(buf), 1000)
isSmoothedVoice(buf) == FGt(voiceActivityRatio(buf), 600)

\* The window starting at sample lo is classified silent.
IsSilentWindow(opt, a, lo, hi, buf) ==
    IF opt.variant = "rms" THEN FLt(RMS(a, lo, hi), opt.silenceThreshold)
    ELSE ~isSmoothedVoice(buf) \/ FLt(RMS(a, lo, hi), opt.silenceThreshold)

\* PushIfLongEnough without the duration test: every closed run is a region.
PushAnyRun(opt, regions, from, to, sr, maxRMS) ==
    Append(regions, [start |-> SamplesToTime(from, sr), end |-> SamplesToTime(to, sr),
                     duration |-> SamplesToTime(to - from, sr), avgRMS |-> maxRMS])

\* The region pushed for a silent run from sample `from` to sample `to`, if the
\* run lasts at least minSilenceDuration: the list with it appended.
PushIfLongEnough(opt, regions, from, to, sr, maxRMS) ==
    IF SamplesToTime(to - from, sr) >= opt.minSilenceDuration
    THEN Append(regions, [start |-> SamplesToTime(from, sr), end |-> SamplesToTime(to, sr),
                          duration |-> SamplesToTime(to - from, sr), avgRMS |-> maxRMS])
    ELSE regions

MergeGap == Sec(300)

\* A merge pass in which the merged region has the sum of the two durations,
\* without the sound between them.
RECURSIVE MergeFromSumDuration(_, _, _)
MergeFromSumDuration(regions, k, currentRegion) ==
    IF k > Len(regions) THEN <<currentRegion>>
    ELSE IF regions[k].start - currentRegion.end < MergeGap
         THEN MergeFromSumDuration(regions, k + 1,
                  [start |-> currentRegion.start, end |-> regions[k].end,
                   duration |-> currentRegion.duration + regions[k].duration,
                   avgRMS |-> (currentRegion.avgRMS + regions[k].avgRMS) \div 2])
         ELSE <<currentRegion>> \o MergeFromSumDuration(regions, k + 1, regions[k])

\* A merge pass that goes on from the next region after a merge, without
\* comparing the merged region with the region after it.
RECURSIVE MergeFromNoRecheck(_, _, _)
MergeFromNoRecheck(regions, k, currentRegion) ==
    IF k > Len(regions) THEN <<currentRegion>>
    ELSE IF regions[k].start - currentRegion.end < MergeGap
         THEN <<[start |-> currentRegion.start, end |-> regions[k].end,
                 duration |-> regions[k].end - currentRegion.start,
                 avgRMS |-> (currentRegion.avgRMS + regions[k].avgRMS) \div 2]>>
              \o (IF k + 1 > Len(regions) THEN <<>>
                  ELSE MergeFromNoRecheck(regions, k + 2, regions[k + 1]))
         ELSE <<currentRegion>> \o MergeFromNoRecheck(regions, k + 1, regions[k])

RECURSIVE MergeFrom(_, _, _)
MergeFrom(regions, k, currentRegion) ==
    IF k > Len(regions) THEN <<currentRegion>>
    ELSE IF regions[k].start - currentRegion.end < MergeGap
         THEN MergeFrom(regions, k + 1,
                        [start |-> currentRegion.start, end |-> regions[k].end,
                         duration |-> regions[k].end - currentRegion.start,
                         avgRMS |-> (currentRegion.avgRMS + regions[k].avgRMS) \div 2])
         ELSE <<currentRegion>> \o MergeFrom(regions, k + 1, regions[k])

mergeCloseRegions(regions) ==
    IF Len(regions) < 2 THEN regions ELSE MergeFrom(regions, 2, regions[1])

\* One iteration of the scan loop of detectSilentRegions, on the window at i.
ScanWindow ==
    /\ pc = "scan"
    /\ i < audio.len
    /\ LET windowEnd == Min(i + options.windowSize, audio.len)
           rms == RMS(audio, i, windowEnd)
           buf == IF options.variant = "rms" THEN voiceActivityBuffer
                  ELSE PushDecision(voiceActivityBuffer,
                                    isVoiceSegment(options, fftBuffers, audio, i, windowEnd),
                                    smoothingBufferSize(options, sampleRate))
       IN /\ voiceActivityBuffer' = buf
          /\ fftBuffers' = IF options.variant = "vadp"
                            THEN ScratchLength(fftBuffers, windowEnd - i)
                            ELSE fftBuffers
          /\ IF IsSilentWindow(options, audio, i, windowEnd, buf)
             THEN /\ currentSilenceStart' =
                        IF currentSilenceStart = Undefined THEN i ELSE currentSilenceStart
                  /\ maxRMSInSilence' =
                        IF currentSilenceStart = Undefined THEN rms
                        ELSE Max(maxRMSInSilence, rms)
                  /\ UNCHANGED silentRegions
             ELSE IF currentSilenceStart # Undefined
             THEN /\ silentRegions' = PushIfLongEnough(options, silentRegions,
                                          currentSilenceStart, i, sampleRate, maxRMSInSilence)
                  /\ currentSilenceStart' = Undefined
                  /\ maxRMSInSilence' = 0
             ELSE UNCHANGED <<silentRegions, currentSilenceStart, maxRMSInSilence>>
    /\ i' = i + options.windowSize
    /\ UNCHANGED <<scores, channelData, monoData, supplied,
                   options, audio, sampleRate, pc, ri, lastEnd, sentences, calls,
                   returned>>

\* The end of detectSilentRegions: the run still open is flushed, and the
\* classes with a VAD merge the close regions.  findSentenceBoundaries starts.
ScanEnd ==
    /\ pc = "scan"
    /\ i >= audio.len
    /\ LET flushed == IF currentSilenceStart # Undefined
                      THEN PushIfLongEnough(options, silentRegions, currentSilenceStart,
                                            audio.len, sampleRate, maxRMSInSilence)
                      ELSE silentRegions
       IN silentRegions' = IF options.variant = "rms" THEN flushed
                           ELSE mergeCloseRegions(flushed)
    /\ pc' = "boundaries"
    /\ ri' = 1
    /\ lastEnd' = 0
    /\ sentences' = <<>>
    /\ UNCHANGED <<scores, channelData, monoData, supplied,
                   options, fftBuffers, audio, sampleRate, i, currentSilenceStart,
                   maxRMSInSilence, voiceActivityBuffer, calls, returned>>

\* ---------------------------------------------------- probability scorer

\* round(1000 * exp(-k / 8)) for k = 0 .. 63; exp(-x) is read off this table at
\* x rounded down to a multiple of 1/8, and is 0 beyond it.
ExpTable ==
    <<1000, 882, 779, 687, 607, 535, 472, 417, 368, 325, 287, 253, 223, 197, 174, 153,
      135, 119, 105, 93, 82, 72, 64, 56, 50, 44, 39, 34, 30, 27, 24, 21,
      18, 16, 14, 13, 11, 10, 9, 8, 7, 6, 5, 5, 4, 4, 3, 3,
      2, 2, 2, 2, 2, 1, 1, 1, 1, 1, 1, 1, 1, 0, 0, 0>>
ExpNeg(x8) == IF x8 < Len(ExpTable) THEN ExpTable[x8 + 1] ELSE 0

Abs(x) == IF x < 0 THEN 0 - x ELSE x

\* Math.exp(-(duration - ideal)^2 / (2 * (ideal / 2)^2)), thousandths
Gaussian(duration, ideal) ==
    LET r64 == (Abs(duration - ideal) * 64) \div ideal
    IN ExpNeg((r64 * r64) \div 256)

\* 1 / (1 + Math.exp(-5 * (duration / ideal - 0.5))), thousandths
Sigmoid(duration, ideal) ==
    LET z8 == ((40 * duration) \div ideal) - 20
    IN IF z8 >= 0 THEN 1000000 \div (1000 + ExpNeg(z8))
       ELSE (ExpNeg(0 - z8) * 1000) \div (1000 + ExpNeg(0 - z8))

\* A null silentRegion argument.
NoRegion == [start |-> Undefined, end |-> Undefined, duration |-> Undefined,
             avgRMS |-> Undefined]

\* Math.floor(t * sampleRate) for a time t in ticks
SampleIndex(t, sr) == (t * sr) \div TU

\* The integer a slice bound is converted to: truncation toward zero of x2 / 2.
Trunc2(x2) == IF x2 >= 0 THEN x2 \div 2 ELSE 0 - ((0 - x2) \div 2)
\* slice's relative index: a negative bound counts from the end of the array.
SliceIndex(x, n) == IF x < 0 THEN Max(n + x, 0) ELSE Min(x, n)

\* The start window and the end window of step k (0, 1, 2) of the voice
\* analysis, as <<lo, hi>> sample ranges; hi <= lo is an empty window.  The
\* bounds are kept doubled, since windowSize / 2 need not be an integer.
StartWindow(a, sr, ssi, esi, k) ==
    LET ws == sr \div 10
        lo == SliceIndex(Trunc2(2 * ssi + k * ws), a.len)
        hi == SliceIndex(Trunc2(Min(2 * ssi + k * ws + 2 * ws, 2 * esi)), a.len)
    IN <<lo, hi>>
EndWindow(a, sr, ssi, esi, k) ==
    LET ws == sr \div 10
        lo == SliceIndex(Trunc2(Max(2 * esi - 2 * ws - k * ws, 2 * ssi)), a.len)
        hi == SliceIndex(Trunc2(2 * esi - k * ws), a.len)
    IN <<lo, hi>>

VoicedWindows(opt, a, wins) ==
    Cardinality({k \in 0..2 : wins[k][2] > wins[k][1]
                              /\ isVoiceSegment(opt, Undefined, a, wins[k][1], wins[k][2])})

\* Math.max(0, Math.min(1, startVoiceScore * 0.7 + (1 - endVoiceScore) * 0.3))
voiceTransitionScore(opt, a, sr, ssi, esi) ==
    LET startVoiced == VoicedWindows(opt, a, [k \in 0..2 |-> StartWindow(a, sr, ssi, esi, k)])
        endVoiced == VoicedWindows(opt, a, [k \in 0..2 |-> EndWindow(a, sr, ssi, esi, k)])
    IN Clamp01((startVoiced * 700 + (3 - endVoiced) * 300) \div 3)

\* The rises (up = TRUE) or falls among the energies of windows 1 .. n-1 of
\* ws samples from sample `base`: energy[k] > 1.1 * energy[k-1], < 0.9 * energy[k-1].
RECURSIVE ContourCount(_, _, _, _, _)
ContourCount(a, base, ws, k, up) ==
    IF k < 1 THEN 0
    ELSE LET cur == SumSq(a, base + k * ws, base + (k + 1) * ws)
             prev == SumSq(a, base + (k - 1) * ws, base + k * ws)
         IN (IF (up /\ 10 * cur > 11 * prev) \/ (~up /\ 10 * cur < 9 * prev) THEN 1 ELSE 0)
            + ContourCount(a, base, ws, k - 1, up)

\* calculateEnergyContour on audioData.slice(lo, hi), thousandths
calculateEnergyContour(a, sr, lo, hi) ==
    LET ws == sr \div 20
        numWindows == (hi - lo) \div ws
        risesCount == ContourCount(a, lo, ws, numWindows - 1, TRUE)
        fallsCount == ContourCount(a, lo, ws, numWindows - 1, FALSE)
    IN IF numWindows < 2 THEN 500
       ELSE Clamp01(FDiv(Min(risesCount, fallsCount), Max(risesCount, fallsCount), 1000))

\* The five-factor score of the "vad" class, in units of 1/100000.
ProbabilityVad(opt, a, sr, s, region) ==
    LET lengthScore == Clamp01(Gaussian(s.duration, opt.idealSentenceLength))
        silenceStrengthScore ==
            IF region = NoRegion THEN 300
            ELSE Clamp01(1000 - FDiv(region.avgRMS, opt.silenceThreshold, 1000))
        silenceDurationScore ==
            IF region = NoRegion THEN 300
            ELSE Clamp01(Sigmoid(region.duration, opt.idealSilenceDuration))
        ssi == SampleIndex(s.start, sr)
        esi == SampleIndex(s.end, sr)
        voice == voiceTransitionScore(opt, a, sr, ssi, esi)
        energyContourScore ==
            calculateEnergyContour(a, sr, SliceIndex(ssi, a.len),
                                   Max(SliceIndex(ssi, a.len), SliceIndex(esi, a.len)))
    IN IF energyContourScore = NaN THEN NaN
       ELSE Max(0, Min(100000,
                lengthScore * 25 + silenceStrengthScore * 15 + silenceDurationScore * 15
                + voice * 25 + energyContourScore * 20))

\* calculateRMSLevel(audioData, startIdx, endIdx)
calculateRMSLevel(a, startIdx, endIdx) ==
    RMS(a, SliceIndex(startIdx, a.len),
        Max(SliceIndex(startIdx, a.len), SliceIndex(endIdx, a.len)))

\* The four-factor score of the "rms" class, in units of 1/100000; not clamped.
ProbabilityRms(opt, a, sr, s, region) ==
    LET lengthScore == Gaussian(s.duration, opt.idealSentenceLength)
        silenceStrengthScore ==
            IF region = NoRegion THEN 300
            ELSE 1000 - FDiv(region.avgRMS, opt.silenceThreshold, 1000)
        silenceDurationScore ==
            IF region = NoRegion THEN 300
            ELSE Min(FDiv(region.duration, opt.idealSilenceDuration, 1000), 1000)
        ssi == SampleIndex(s.start, sr)
        esi == SampleIndex(s.end, sr)
        ws == sr \div 10
        startEnergy == calculateRMSLevel(a, ssi, Min(ssi + ws, esi))
        endEnergy == calculateRMSLevel(a, Max(esi - ws, ssi), esi)
        energy == IF FGt(startEnergy, opt.silenceThreshold * 2)
                     /\ FLt(endEnergy, opt.silenceThreshold * 2) THEN 1000 ELSE 500
    IN lengthScore * 30 + silenceStrengthScore * 25 + silenceDurationScore * 25
       + energy * 20

\* sentence.probability as the class of the detector sets it; the "vadp"
\* class sets none, and the field reads as undefined.
calculateSentenceProbability(opt, a, sr, s, region) ==
    CASE opt.variant = "vad" -> ProbabilityVad(opt, a, sr, s, region)
      [] opt.variant = "rms" -> ProbabilityRms(opt, a, sr, s, region)
      [] opt.variant = "vadp" -> Undefined

\* ------------------------------------------------------ boundary builder

Sentence(index, start, end, probability) ==
    [index |-> index, start |-> start, end |-> end, duration |-> end - start,
     probability |-> probability]

\* The number of whole maxSentenceLength in the duration, rounded down.
numPartsFloor(opt, sentenceDuration) == sentenceDuration \div opt.maxSentenceLength

\* Math.ceil(sentenceDuration / maxSentenceLength)
numParts(opt, sentenceDuration) ==
    (sentenceDuration + opt.maxSentenceLength - 1) \div opt.maxSentenceLength

\* The end of the region itself, in the place of the middle of the next gap.
gapMiddleAtRegionEnd(regions, k) == regions[k].end

\* (region.end + silentRegions[i + 1].start) / 2
gapMiddle(regions, k) == (regions[k].end + regions[k + 1].start) \div 2

\* Where a sentence bounded by region k ends: at the region's start, or, when
\* gaps are not allowed and a region follows, in the middle of the next gap.
segmentEnd(opt, regions, k) ==
    IF ~AllowGaps(opt) /\ k < Len(regions) THEN gapMiddle(regions, k)
    ELSE regions[k].start

\* The sentences one iteration of the loop pushes for region k, given lastEnd
\* and the number of sentences pushed before.
SentencesForRegion(opt, a, sr, regions, k, last, count) ==
    LET region == regions[k]
        sentenceDuration == region.start - last
    IN IF sentenceDuration >= opt.minSentenceLength
          /\ sentenceDuration <= opt.maxSentenceLength
       THEN LET end == segmentEnd(opt, regions, k)
            IN <<Sentence(count, last, end,
                          calculateSentenceProbability(opt, a, sr,
                              [start |-> last, end |-> end, duration |-> end - last],
                              region))>>
       ELSE IF sentenceDuration > opt.maxSentenceLength
       THEN LET n == numParts(opt, sentenceDuration)
                partDuration == sentenceDuration \div n
                PartStart(j) == last + j * partDuration
                PartEnd(j) == IF j = n - 1 THEN segmentEnd(opt, regions, k)
                              ELSE last + (j + 1) * partDuration
            IN [p \in 1..n |->
                  Sentence(count + p - 1, PartStart(p - 1), PartEnd(p - 1),
                           calculateSentenceProbability(opt, a, sr,
                               [start |-> PartStart(p - 1), end |-> PartEnd(p - 1),
                                duration |-> PartEnd(p - 1) - PartStart(p - 1)],
                               IF p = n THEN region ELSE NoRegion))]
       ELSE <<>>

\* NextLastEnd without the midpoint rule of allowGaps = false: lastEnd is
\* always the end of the region.
NextLastEndAtRegionEnd(opt, regions, k) == regions[k].end

\* lastEnd after the iteration for region k
NextLastEnd(opt, regions, k) ==
    IF AllowGaps(opt) THEN regions[k].end
    ELSE IF k < Len(regions) THEN gapMiddle(regions, k)
    ELSE regions[k].end

\* findSentenceBoundaries without its last step: what follows the last
\* region is never emitted.
TrailingSentenceForgotten(opt, a, sr, last, count) == <<>>

\* The trailing sentence without the test of its length against
\* minSentenceLength: whatever follows the last region is emitted.
TrailingSentenceAnyLength(opt, a, sr, last, count) ==
    LET remainingDuration == totalDuration(a, sr) - last
    IN IF last < totalDuration(a, sr)
       THEN <<Sentence(count, last, totalDuration(a, sr),
                       calculateSentenceProbability(opt, a, sr,
                           [start |-> last, end |-> totalDuration(a, sr),
                            duration |-> remainingDuration],
                           NoRegion))>>
       ELSE <<>>

\* The trailing sentence, from lastEnd to the end of the buffer, if any.
TrailingSentence(opt, a, sr, last, count) ==
    LET remainingDuration == totalDuration(a, sr) - last
    IN IF last < totalDuration(a, sr) /\ remainingDuration >= opt.minSentenceLength
       THEN <<Sentence(count, last, totalDuration(a, sr),
                       calculateSentenceProbability(opt, a, sr,
                           [start |-> last, end |-> totalDuration(a, sr),
                            duration |-> remainingDuration],
                           NoRegion))>>
       ELSE <<>>

RECURSIVE SumSeq(_, _)
SumSeq(f, k) == IF k = 0 THEN 0 ELSE f[k] + SumSeq(f, k - 1)

\* segments.reduce((sum, seg) => sum + seg.duration, 0)
SumDuration(segments) ==
    SumSeq([k \in 1..Len(segments) |-> segments[k].duration], Len(segments))

\* The probability of the first member of the group, in the place of the mean.
avgProbabilityOfFirst(opt, segments) == segments[1].probability

\* The average probability of a group; the "vadp" class computes none.  A sum
\* with a NaN or an undefined term is NaN.
avgProbability(opt, segments) ==
    IF opt.variant = "vadp" THEN Undefined
    ELSE IF \E k \in 1..Len(segments) : ~IsNum(segments[k].probability) THEN NaN
    ELSE SumSeq([k \in 1..Len(segments) |-> segments[k].probability], Len(segments))
            \div Len(segments)

\* mergeSegmentGroup keeping the duration of the first member of the group
\* instead of computing the duration of the merged span.
mergeSegmentGroupOldDuration(opt, segments) ==
    IF Len(segments) = 1 THEN segments[1]
    ELSE [index |-> segments[1].index,
          start |-> segments[1].start,
          end |-> segments[Len(segments)].end,
          duration |-> segments[1].duration,
          probability |-> avgProbability(opt, segments)]

mergeSegmentGroup(opt, segments) ==
    IF Len(segments) = 1 THEN segments[1]
    ELSE [index |-> segments[1].index,
          start |-> segments[1].start,
          end |-> segments[Len(segments)].end,
          duration |-> segments[Len(segments)].end - segments[1].start,
          probability |-> avgProbability(opt, segments)]

\* The loop of mergeShortSegments from sentence k on, with the sentences merged
\* so far and the pending group; then the flush of the pending group.
RECURSIVE MergeLoop(_, _, _, _, _)
MergeLoop(opt, minLen, list, k, acc) ==
    IF k > Len(list)
    THEN IF Len(acc.segmentsToMerge) > 0
         THEN Append(acc.mergedSegments, mergeSegmentGroup(opt, acc.segmentsToMerge))
         ELSE acc.mergedSegments
    ELSE LET segment == list[k]
             group == acc.segmentsToMerge
             currentDuration == SumDuration(group)
         IN IF Len(group) = 0
            THEN MergeLoop(opt, minLen, list, k + 1,
                     [mergedSegments |-> acc.mergedSegments, segmentsToMerge |-> <<segment>>])
            ELSE IF currentDuration + segment.duration <= minLen
            THEN MergeLoop(opt, minLen, list, k + 1,
                     [mergedSegments |-> acc.mergedSegments,
                      segmentsToMerge |-> Append(group, segment)])
            ELSE IF currentDuration >= minLen
            THEN MergeLoop(opt, minLen, list, k + 1,
                     [mergedSegments |-> Append(acc.mergedSegments,
                                                mergeSegmentGroup(opt, group)),
                      segmentsToMerge |-> <<segment>>])
            ELSE MergeLoop(opt, minLen, list, k + 1,
                     [mergedSegments |-> Append(acc.mergedSegments,
                                                mergeSegmentGroup(opt, Append(group, segment))),
                      segmentsToMerge |-> <<>>])

\* mergeShortSegments closing a pending group as soon as the next sentence
\* does not fit, also when the group is still shorter than minSegmentLength.
RECURSIVE MergeLoopFlushEarly(_, _, _, _, _)
MergeLoopFlushEarly(opt, minLen, list, k, acc) ==
    IF k > Len(list)
    THEN IF Len(acc.segmentsToMerge) > 0
         THEN Append(acc.mergedSegments, mergeSegmentGroup(opt, acc.segmentsToMerge))
         ELSE acc.mergedSegments
    ELSE LET segment == list[k]
             group == acc.segmentsToMerge
         IN IF Len(group) = 0 \/ SumDuration(group) + segment.duration <= minLen
            THEN MergeLoopFlushEarly(opt, minLen, list, k + 1,
                     [mergedSegments |-> acc.mergedSegments,
                      segmentsToMerge |-> Append(group, segment)])
            ELSE MergeLoopFlushEarly(opt, minLen, list, k + 1,
                     [mergedSegments |-> Append(acc.mergedSegments,
                                                mergeSegmentGroup(opt, group)),
                      segmentsToMerge |-> <<segment>>])

mergeShortSegmentsFlushEarly(opt, minLen, list) ==
    IF Len(list) <= 1 THEN list
    ELSE MergeLoopFlushEarly(opt, minLen, list, 1,
                             [mergedSegments |-> <<>>, segmentsToMerge |-> <<>>])

mergeShortSegments(opt, minLen, list) ==
    IF Len(list) <= 1 THEN list
    ELSE MergeLoop(opt, minLen, list, 1, [mergedSegments |-> <<>>, segmentsToMerge |-> <<>>])

\* One iteration of the loop of findSentenceBoundaries, for region ri.
BoundaryStep ==
    /\ pc = "boundaries"
    /\ ri <= Len(silentRegions)
    /\ sentences' = sentences \o SentencesForRegion(options, audio, sampleRate,
                                     silentRegions, ri, lastEnd, Len(sentences))
    /\ lastEnd' = NextLastEnd(options, silentRegions, ri)
    /\ ri' = ri + 1
    /\ UNCHANGED <<scores, channelData, monoData, supplied,
                   options, fftBuffers, audio, sampleRate, pc, i, currentSilenceStart,
                   maxRMSInSilence, voiceActivityBuffer, silentRegions, calls, returned>>

\* What findSentenceBoundaries returns once the loop is over: the trailing
\* sentence is added and, when minSegmentLength > 0, the short segments merged.
FinishBoundaries(opt, a, sr, list, last) ==
    LET all == list \o TrailingSentence(opt, a, sr, last, Len(list))
    IN IF MinSegmentLength(opt) > 0
       THEN mergeShortSegments(opt, MinSegmentLength(opt), all)
       ELSE all

\* alignToAudioBoundaries in detectSentences.  The "vadp" class returns one
\* sentence over the whole buffer, without a probability, when there is none.
AlignSentences(opt, a, sr, list) ==
    IF ~AlignToAudioBoundaries(opt) THEN list
    ELSE IF Len(list) = 0
    THEN (IF opt.variant = "vadp"
          THEN <<[index |-> 0, start |-> 0, end |-> totalDuration(a, sr),
                  duration |-> totalDuration(a, sr), probability |-> Undefined]>>
          ELSE list)
    ELSE LET first == [list EXCEPT ![1].start = 0]
             n == Len(list)
         IN [first EXCEPT ![n].end = totalDuration(a, sr),
                          ![n].duration = totalDuration(a, sr) - first[n].start]

\* The end of findSentenceBoundaries and the rest of detectSentences: the list
\* is returned to the caller.
Return ==
    /\ pc = "boundaries"
    /\ ri > Len(silentRegions)
    /\ sentences' = AlignSentences(options, audio, sampleRate,
                        FinishBoundaries(options, audio, sampleRate, sentences, lastEnd))
    /\ pc' = "done"
    /\ calls' = calls + 1
    /\ returned' = Append(returned, [audio |-> audio, sampleRate |-> sampleRate,
                                     sentences |-> sentences'])
    /\ UNCHANGED <<scores, channelData, monoData, supplied,
                   options, fftBuffers, audio, sampleRate, i, currentSilenceStart,
                   maxRMSInSilence, voiceActivityBuffer, silentRegions, ri, lastEnd>>

\* ------------------------------------------------------------ the inputs

\* The bounds of the model.
MaxRuns == 4
MaxCalls == 3
MaxSentences == 3
MaxSilentChunks == 6

\* The options a caller omits.
NoOptions ==
    [minSilenceDuration |-> Undefined, silenceThreshold |-> Undefined,
     minSentenceLength |-> Undefined, maxSentenceLength |-> Undefined,
     windowSize |-> Undefined, idealSentenceLength |-> Undefined,
     idealSilenceDuration |-> Undefined, allowGaps |-> Undefined,
     minSegmentLength |-> Undefined, alignToAudioBoundaries |-> Undefined]

\* Short thresholds, so that short buffers show every case: windows of 8
\* samples (0.1 s at 80 Hz), silences from 0.2 s, sentences of 0.3 s to 0.5 s.
ShortOptions ==
    [NoOptions EXCEPT !.windowSize = ChunkSamples, !.minSilenceDuration = Sec(200),
                      !.minSentenceLength = Sec(300), !.maxSentenceLength = Sec(500),
                      !.idealSentenceLength = Sec(400)]

SuppliedOptions ==
    {[ShortOptions EXCEPT !.allowGaps = g, !.alignToAudioBoundaries = al,
                          !.minSegmentLength = m] :
        g \in {0, 1}, al \in {0, 1}, m \in {0, Sec(600)}}

Detectors ==
    {Constructor("rms", ShortOptions)}
    \cup {Constructor("vad", o) : o \in SuppliedOptions}
    \cup {Constructor("vadp", o) :
             o \in {p \in SuppliedOptions : p.allowGaps = 1 - p.alignToAudioBoundaries}}

\* A buffer of whole chunks, and one whose last chunk is cut to `cut` samples.
Buffer(kinds) == [kinds |-> kinds, len |-> Len(kinds) * ChunkSamples]
CutBuffer(kinds, cut) == [kinds |-> kinds, len |-> (Len(kinds) - 1) * ChunkSamples + cut]

Repeat(kind, n) == [k \in 1..n |-> kind]

\* The lengths, in chunks, of a run of speech and of a run of silence.
SpeechRuns == {2, 3, 6}
SilenceRuns == {1, 2}

\* The chunk sequences of n runs alternating speech ("V") and silence ("Z"),
\* the first run being speech iff speechFirst.
RECURSIVE Alternating(_, _)
Alternating(n, speechFirst) ==
    IF n = 0 THEN {<<>>}
    ELSE {Repeat(IF speechFirst THEN "V" ELSE "Z", len) \o rest :
            len \in (IF speechFirst THEN SpeechRuns ELSE SilenceRuns),
            rest \in Alternating(n - 1, ~speechFirst)}

StructuredBuffers ==
    {Buffer(kinds) : kinds \in UNION {Alternating(n, first) :
                                         n \in 1..MaxRuns, first \in BOOLEAN}}

\* Buffers of one or two runs of three chunks of any kinds, whole or with the
\* last chunk cut to three samples, and speech that grows louder and softer.
RECURSIVE KindRuns(_)
KindRuns(n) ==
    IF n = 0 THEN {<<>>}
    ELSE {Repeat(kind, 3) \o rest : kind \in Kinds, rest \in KindRuns(n - 1)}

MixedBuffers ==
    LET seqs == UNION {KindRuns(n) : n \in 1..2}
    IN {Buffer(kinds) : kinds \in seqs} \cup {CutBuffer(kinds, 3) : kinds \in seqs}
       \cup {Buffer(<<"V", "W", "V", "Z", "Z", "Z", "W", "V", "W", "V">>),
             Buffer(<<"V", "W", "V", "W", "V", "W", "H", "H", "V", "W", "W", "V">>)}

Buffers == StructuredBuffers \cup MixedBuffers \cup {Buffer(<<>>)}
SampleRates == {80}

\* ------------------------------------------------------- the specification

Init ==
    /\ options \in Detectors
    /\ fftBuffers = Undefined
    /\ audio = Buffer(<<>>)
    /\ sampleRate = 80
    /\ pc = "idle"
    /\ i = 0
    /\ currentSilenceStart = Undefined
    /\ maxRMSInSilence = 0
    /\ voiceActivityBuffer = <<>>
    /\ silentRegions = <<>>
    /\ ri = 1
    /\ lastEnd = 0
    /\ sentences = <<>>
    /\ calls = 0
    /\ returned = <<>>
    /\ supplied = NotFollowed
    /\ channelData = <<>>
    /\ monoData = <<>>
    /\ scores = <<>>

\* The values the locals of detectSilentRegions start a call with.
FreshSilenceStart == Undefined

\* The smoothing buffer kept from one call to the next.
KeptBuffer == voiceActivityBuffer

FreshBuffer == <<>>

\* detectSentences(audioData, sampleRate) is called: detectSilentRegions starts.
DetectSentences(a, sr) ==
    /\ pc \in {"idle", "done"}
    /\ audio' = a
    /\ sampleRate' = sr
    /\ pc' = "scan"
    /\ i' = 0
    /\ currentSilenceStart' = FreshSilenceStart
    /\ maxRMSInSilence' = 0
    /\ voiceActivityBuffer' = FreshBuffer
    /\ silentRegions' = <<>>
    /\ UNCHANGED <<scores, channelData, monoData, supplied,
                   options, fftBuffers, ri, lastEnd, sentences, calls, returned>>

Detect ==
    /\ calls = 0
    /\ \E a \in Buffers, sr \in SampleRates : DetectSentences(a, sr)

Next == Detect \/ ScanWindow \/ ScanEnd \/ BoundaryStep \/ Return

Spec == Init /\ [][Next]_vars

\* ------------------------------------------- one detector, several calls

\* The detectors and the buffers of the repeated calls.  At 160 Hz a window
\* of 8 samples lasts 0.05 s and the smoothing buffer holds two decisions.
CallDetectors ==
    {Constructor("rms", ShortOptions), Constructor("vad", ShortOptions),
     Constructor("vadp", ShortOptions),
     Constructor("vad", [ShortOptions EXCEPT !.allowGaps = 1, !.minSegmentLength = Sec(600)])}

CallBuffers ==
    {Buffer(Repeat("V", 6) \o Repeat("Z", 4)),
     Buffer(<<"V", "Z", "Z">> \o Repeat("V", 7)),
     CutBuffer(<<"V">>, 3)}

CallRates == {2 * 80}

InitCalls ==
    /\ options \in CallDetectors
    /\ fftBuffers = Undefined
    /\ audio = Buffer(<<>>)
    /\ sampleRate = 80
    /\ pc = "idle"
    /\ i = 0
    /\ currentSilenceStart = Undefined
    /\ maxRMSInSilence = 0
    /\ voiceActivityBuffer = <<>>
    /\ silentRegions = <<>>
    /\ ri = 1
    /\ lastEnd = 0
    /\ sentences = <<>>
    /\ calls = 0
    /\ returned = <<>>
    /\ supplied = NotFollowed
    /\ channelData = <<>>
    /\ monoData = <<>>
    /\ scores = <<>>

\* The caller calls detectSentences on the same detector, once more.
DetectCall ==
    /\ calls < MaxCalls
    /\ \E a \in CallBuffers, sr \in CallRates : DetectSentences(a, sr)

NextCalls == DetectCall \/ ScanWindow \/ ScanEnd \/ BoundaryStep \/ Return

SpecCalls == InitCalls /\ [][NextCalls]_vars

\* ------------------------------------------ mergeShortSegments on a list

\* The time-ordered lists of one to MaxSentences sentences, each 0.1 s to
\* 0.3 s long and starting where the one before ends or 0.1 s later.
RECURSIVE SentenceLists(_, _, _)
SentenceLists(n, from, count) ==
    IF n = 0 THEN {<<>>}
    ELSE UNION {{<<Sentence(count, from + Sec(100) * gap, from + Sec(100) * (gap + len),
                            10000 * (2 * len + gap))>> \o rest :
                    rest \in SentenceLists(n - 1, from + Sec(100) * (gap + len), count + 1)} :
                  gap \in 0..1, len \in 1..3}

MergeLists == UNION {SentenceLists(n, 0, 0) : n \in 1..MaxSentences}

MergeDetectors ==
    {Constructor("vad", [ShortOptions EXCEPT !.minSegmentLength = Sec(m)]) :
        m \in {200, 300, 500}}

InitMerge ==
    /\ options \in MergeDetectors
    /\ sentences \in MergeLists
    /\ pc = "merge"
    /\ fftBuffers = Undefined
    /\ audio = Buffer(<<>>)
    /\ sampleRate = 80
    /\ i = 0
    /\ currentSilenceStart = Undefined
    /\ maxRMSInSilence = 0
    /\ voiceActivityBuffer = <<>>
    /\ silentRegions = <<>>
    /\ ri = 1
    /\ lastEnd = 0
    /\ calls = 0
    /\ returned = <<>>
    /\ supplied = NotFollowed
    /\ channelData = <<>>
    /\ monoData = <<>>
    /\ scores = <<>>

\* mergeShortSegments is applied to the list, and then to its own result.
MergeShortSegments ==
    /\ pc \in {"merge", "merged"}
    /\ sentences' = mergeShortSegments(options, MinSegmentLength(options), sentences)
    /\ returned' = Append(returned, [audio |-> audio, sampleRate |-> sampleRate,
                                     sentences |-> sentences'])
    /\ pc' = IF pc = "merge" THEN "merged" ELSE "mergedTwice"
    /\ UNCHANGED <<scores, channelData, monoData, supplied,
                   options, fftBuffers, audio, sampleRate, i, currentSilenceStart,
                   maxRMSInSilence, voiceActivityBuffer, silentRegions, ri, lastEnd, calls>>

NextMerge == MergeShortSegments

SpecMerge == InitMerge /\ [][NextMerge]_vars

\* ---------------------------------------------- the scenarios of the spec

\* The sample rate of the scenarios: a window of 8 samples lasts 0.05 s, about
\* what the default window of 2048 samples lasts at 44100 Hz, and the
\* smoothing buffer holds two decisions as it does there.
ScenarioRate == 2 * 80

\* A buffer of `milli` thousandths of a second of one kind of sound.
Sound(kind, milli) == Repeat(kind, (milli * ScenarioRate) \div (1000 * ChunkSamples))

\* Scenario A: 3 s of a 200 Hz sine of amplitude 0.5, 1 s of zeros, 3 s of sine.
ScenarioA == Buffer(Sound("T", 3000) \o Sound("Z", 1000) \o Sound("T", 3000))

\* Scenario B: 5 s of silence.
ScenarioB == Buffer(Sound("Z", 5000))

\* Scenario C: 20 s of continuous tone.
ScenarioC == Buffer(Sound("T", 20000))

\* Scenarios A and C with voiced sound in the place of the sine.
VoicedA == Buffer(Sound("V", 3000) \o Sound("Z", 1000) \o Sound("V", 3000))
VoicedC == Buffer(Sound("V", 20000))

\* Short buffers of digital silence or of a hum below silenceThreshold.
SilentBuffers == {Buffer(Repeat(kind, n)) : kind \in {"Z", "H"}, n \in 1..MaxSilentChunks}

ScenarioBuffers == {ScenarioA, ScenarioB, ScenarioC, VoicedA, VoicedC} \cup SilentBuffers

\* The default options, but for the window of 8 samples.
ScenarioOptions == [NoOptions EXCEPT !.windowSize = ChunkSamples]

\* Options under which a sentence may be shorter than a silence.
LongSilenceOptions == [ShortOptions EXCEPT !.minSilenceDuration = Sec(500)]

ScenarioDetectors ==
    {Constructor(variant, ScenarioOptions) : variant \in {"rms", "vad", "vadp"}}
    \cup {Constructor("vad", ShortOptions), Constructor("vad", LongSilenceOptions)}

InitScenarios ==
    /\ options \in ScenarioDetectors
    /\ fftBuffers = Undefined
    /\ audio = Buffer(<<>>)
    /\ sampleRate = ScenarioRate
    /\ pc = "idle"
    /\ i = 0
    /\ currentSilenceStart = Undefined
    /\ maxRMSInSilence = 0
    /\ voiceActivityBuffer = <<>>
    /\ silentRegions = <<>>
    /\ ri = 1
    /\ lastEnd = 0
    /\ sentences = <<>>
    /\ calls = 0
    /\ returned = <<>>
    /\ supplied = NotFollowed
    /\ channelData = <<>>
    /\ monoData = <<>>
    /\ scores = <<>>

\* detectSentences is called on one of the scenarios' buffers.
DetectScenario ==
    /\ calls = 0
    /\ \E a \in ScenarioBuffers : DetectSentences(a, ScenarioRate)

NextScenarios == DetectScenario \/ ScanWindow \/ ScanEnd \/ BoundaryStep \/ Return

SpecScenarios == InitScenarios /\ [][NextScenarios]_vars

\* ------------------------------------------------------ the construction

\* The option objects passed to the constructors: the short options, the
\* short options with one option changed, and no options at all.
ChangedOptions ==
    {<<"windowSize", 6>>, <<"windowSize", 0>>, <<"windowSize", 2 * ChunkSamples>>,
     <<"minSentenceLength", Sec(600)>>, <<"minSentenceLength", 0>>,
     <<"minSentenceLength", Sec(400)>>,
     <<"minSilenceDuration", 0>>, <<"silenceThreshold", 0>>,
     <<"allowGaps", 0>>, <<"alignToAudioBoundaries", 0>>, <<"minSegmentLength", 0>>}

ConstructorOptions ==
    {ShortOptions, NoOptions}
    \cup {[ShortOptions EXCEPT ![change[1]] = change[2]] : change \in ChangedOptions}

ConstructBuffers ==
    {Buffer(<<>>), Buffer(Repeat("Z", 3)), Buffer(Repeat("V", 4)),
     Buffer(Repeat("V", 4) \o Repeat("Z", 2) \o Repeat("V", 4)),
     Buffer(Repeat("V", 7) \o Repeat("Z", 2))}

\* new AudioSentenceDetector(options) is about to run: `options` holds the
\* argument, and the class, until the constructor has built this.options.
InitConstruct ==
    /\ options \in {[variant |-> variant] @@ o :
                       variant \in {"rms", "vad", "vadp"}, o \in ConstructorOptions}
    /\ pc = "new"
    /\ fftBuffers = Undefined
    /\ audio = Buffer(<<>>)
    /\ sampleRate = 80
    /\ i = 0
    /\ currentSilenceStart = Undefined
    /\ maxRMSInSilence = 0
    /\ voiceActivityBuffer = <<>>
    /\ silentRegions = <<>>
    /\ ri = 1
    /\ lastEnd = 0
    /\ sentences = <<>>
    /\ calls = 0
    /\ returned = <<>>
    /\ supplied = options
    /\ channelData = <<>>
    /\ monoData = <<>>
    /\ scores = <<>>

\* The constructor runs: it has no statement that throws.
Construct ==
    /\ pc = "new"
    /\ options' = Constructor(options.variant, options)
    /\ pc' = "idle"
    /\ UNCHANGED <<scores, channelData, monoData, supplied,
                   fftBuffers, audio, sampleRate, i, currentSilenceStart,
                   maxRMSInSilence, voiceActivityBuffer, silentRegions, ri, lastEnd,
                   sentences, calls, returned>>

\* detectSentences is called on the detector constructed.
DetectConstructed ==
    /\ calls = 0
    /\ pc = "idle"
    /\ \E a \in ConstructBuffers : DetectSentences(a, 80)

NextConstruct ==
    Construct \/ DetectConstructed \/ ScanWindow \/ ScanEnd \/ BoundaryStep \/ Return

SpecConstruct == InitConstruct /\ [][NextConstruct]_vars

\* Every division of a time the model performs in ticks is exact.
ExactTimes ==
    /\ (TU % sampleRate) = 0
    /\ pc = "boundaries" /\ ri <= Len(silentRegions) =>
         /\ ri < Len(silentRegions) =>
              (silentRegions[ri].end + silentRegions[ri + 1].start) % 2 = 0
         /\ silentRegions[ri].start - lastEnd > options.maxSentenceLength =>
              (silentRegions[ri].start - lastEnd)
                 % numParts(options, silentRegions[ri].start - lastEnd) = 0

\* ------------------------------------------------------- convertToMono

MaxChannels == 2
MaxFrames == 2

\* The sample values of the channels: multiples of 60, which every channel
\* count up to six divides, so that the quotient of the mean is exact.
SampleValues == {0 - 60, 0, 2 * 60}

RECURSIVE SamplesOf(_)
SamplesOf(n) ==
    IF n = 0 THEN {<<>>}
    ELSE {Append(samples, x) : samples \in SamplesOf(n - 1), x \in SampleValues}

RECURSIVE ChannelsOf(_, _)
ChannelsOf(c, n) ==
    IF c = 0 THEN {<<>>}
    ELSE {Append(channels, samples) : channels \in ChannelsOf(c - 1, n), samples \in SamplesOf(n)}

\* What wav.decode hands over: one to MaxChannels channels of one length.
DecodedChannels == UNION {ChannelsOf(c, n) : c \in 1..MaxChannels, n \in 0..MaxFrames}

\* channelData.reduce((sum, channel) => sum + channel[i], 0) over the first c channels.
RECURSIVE ReduceSum(_, _, _)
ReduceSum(channels, c, k) ==
    IF c = 0 THEN 0 ELSE ReduceSum(channels, c - 1, k) + channels[c][k]

\* The sum of the channels, not divided by their count.
convertToMonoSum(channels) ==
    IF Len(channels) = 1 THEN channels[1]
    ELSE [k \in 1..Len(channels[1]) |-> ReduceSum(channels, Len(channels), k)]

convertToMono(channels) ==
    IF Len(channels) = 1 THEN channels[1]
    ELSE [k \in 1..Len(channels[1]) |->
             ReduceSum(channels, Len(channels), k) \div Len(channels)]

InitMono ==
    /\ channelData \in DecodedChannels
    /\ monoData = <<>>
    /\ scores = <<>>
    /\ options = Constructor("rms", ShortOptions)
    /\ supplied = NotFollowed
    /\ pc = "decoded"
    /\ fftBuffers = Undefined
    /\ audio = Buffer(<<>>)
    /\ sampleRate = 80
    /\ i = 0
    /\ currentSilenceStart = Undefined
    /\ maxRMSInSilence = 0
    /\ voiceActivityBuffer = <<>>
    /\ silentRegions = <<>>
    /\ ri = 1
    /\ lastEnd = 0
    /\ sentences = <<>>
    /\ calls = 0
    /\ returned = <<>>

ConvertToMono ==
    /\ pc = "decoded"
    /\ monoData' = convertToMono(channelData)
    /\ pc' = "mono"
    /\ UNCHANGED <<scores, channelData, supplied, options, fftBuffers, audio, sampleRate, i,
                   currentSilenceStart, maxRMSInSilence, voiceActivityBuffer, silentRegions,
                   ri, lastEnd, sentences, calls, returned>>

NextMono == ConvertToMono

SpecMono == InitMono /\ [][NextMono]_vars

\* ------------------------------------------ mergeCloseRegions on a list

MaxRegions == 3

\* The lists of n silent regions in time order from the instant `from` on:
\* each region lasts 0.3 or 0.5 s, with an avgRMS of 2 or 6 thousandths, and
\* lies 0.1 to 0.4 s after the one before it.
RECURSIVE RegionLists(_, _)
RegionLists(n, from) ==
    IF n = 0 THEN {<<>>}
    ELSE UNION {{<<[start |-> from + Sec(100) * gap,
                    end |-> from + Sec(100) * (gap + len),
                    duration |-> Sec(100) * len, avgRMS |-> 2 * len - 4]>> \o rest :
                    rest \in RegionLists(n - 1, from + Sec(100) * (gap + len))} :
                  gap \in 1..4, len \in {3, 5}}

InitRegions ==
    /\ silentRegions \in UNION {RegionLists(n, 0) : n \in 0..MaxRegions}
    /\ pc = "regions"
    /\ options = Constructor("vad", ShortOptions)
    /\ supplied = NotFollowed
    /\ channelData = <<>>
    /\ monoData = <<>>
    /\ scores = <<>>
    /\ fftBuffers = Undefined
    /\ audio = Buffer(<<>>)
    /\ sampleRate = 80
    /\ i = 0
    /\ currentSilenceStart = Undefined
    /\ maxRMSInSilence = 0
    /\ voiceActivityBuffer = <<>>
    /\ ri = 1
    /\ lastEnd = 0
    /\ sentences = <<>>
    /\ calls = 0
    /\ returned = <<>>

\* mergeCloseRegions(regions); returned keeps the list it was given.
MergeCloseRegions ==
    /\ pc = "regions"
    /\ silentRegions' = mergeCloseRegions(silentRegions)
    /\ returned' = Append(returned, [regions |-> silentRegions])
    /\ pc' = "regionsMerged"
    /\ UNCHANGED <<scores, channelData, monoData, supplied, options, fftBuffers, audio,
                   sampleRate, i,
                   currentSilenceStart, maxRMSInSilence, voiceActivityBuffer, ri, lastEnd,
                   sentences, calls>>

NextRegions == MergeCloseRegions

SpecRegions == InitRegions /\ [][NextRegions]_vars

\* ------------------------------------------- the decision of isVoiceSegment

\* The feature scores a window can have: zcrScore, centroidScore and
\* energyScore are 0 or 1, and 0 to 3 formants exceed 0.1.
FeatureScores == [zcr : 0..1, centroid : 0..1, formants : 0..3, energy : 0..1]

InitVoice ==
    /\ scores \in FeatureScores
    /\ options \in {Constructor(variant, ShortOptions) : variant \in {"vad", "vadp"}}
    /\ pc = "scored"
    /\ supplied = NotFollowed
    /\ channelData = <<>>
    /\ monoData = <<>>
    /\ fftBuffers = Undefined
    /\ audio = Buffer(<<>>)
    /\ sampleRate = 80
    /\ i = 0
    /\ currentSilenceStart = Undefined
    /\ maxRMSInSilence = 0
    /\ voiceActivityBuffer = <<>>
    /\ silentRegions = <<>>
    /\ ri = 1
    /\ lastEnd = 0
    /\ sentences = <<>>
    /\ calls = 0
    /\ returned = <<>>

\* The weighted sum and the return of isVoiceSegment; the decision goes to the
\* smoothing buffer of the caller.
DecideVoice ==
    /\ pc = "scored"
    /\ voiceActivityBuffer' = <<isVoiceDecision(scores.zcr, scores.centroid,
                                                scores.formants, scores.energy)>>
    /\ pc' = "decided"
    /\ UNCHANGED <<scores, channelData, monoData, supplied, options, fftBuffers, audio,
                   sampleRate, i, currentSilenceStart, maxRMSInSilence, silentRegions, ri,
                   lastEnd, sentences, calls, returned>>

NextVoice == DecideVoice

SpecVoice == InitVoice /\ [][NextVoice]_vars

\* ----------------------------------------------- detection of a decoded file

MaxDecodedChunks == 3

\* The chunks of one channel: digital silence or louder speech.
RECURSIVE ChannelKinds(_)
ChannelKinds(n) ==
    IF n = 0 THEN {<<>>}
    ELSE {Append(kinds, kind) : kinds \in ChannelKinds(n - 1), kind \in {"Z", "W"}}

\* What the decoder hands over for a mono and for a stereo file of n chunks:
\* one or two channels, each a buffer.
DecodedBuffers ==
    UNION {{<<Buffer(left)>> : left \in ChannelKinds(n)}
           \cup {<<Buffer(left), Buffer(right)>> :
                    left \in ChannelKinds(n), right \in ChannelKinds(n)} :
              n \in 1..MaxDecodedChunks}

\* convertToMono a chunk at a time: the samples of a chunk of every kind of
\* speech have one sign pattern, so the mean of the channels' samples is the
\* sample of the kind that has the mean amplitude.
convertToMonoBuffer(channels) ==
    IF Len(channels) = 1 THEN channels[1]
    ELSE Buffer([c \in 1..Len(channels[1].kinds) |->
                    LET amps == [ch \in 1..Len(channels) |-> Amp(channels[ch].kinds[c])]
                        mean == SumSeq(amps, Len(channels)) \div Len(channels)
                    IN CHOOSE kind \in {"Z", "V", "W"} : Amp(kind) = mean])

\* The samples the entry point for an encoded buffer hands to the analysis:
\* detectSentences(buffer) of the "rms" class converts to mono, detect(buffer)
\* of the other two classes takes channelData[0].
AnalysedSamples(opt, channels) ==
    IF opt.variant = "rms" THEN convertToMonoBuffer(channels) ELSE channels[1]

InitDecoded ==
    /\ channelData \in DecodedBuffers
    /\ options \in {Constructor(variant, ShortOptions) : variant \in {"rms", "vad", "vadp"}}
    /\ pc = "idle"
    /\ monoData = <<>>
    /\ scores = <<>>
    /\ supplied = NotFollowed
    /\ fftBuffers = Undefined
    /\ audio = Buffer(<<>>)
    /\ sampleRate = 80
    /\ i = 0
    /\ currentSilenceStart = Undefined
    /\ maxRMSInSilence = 0
    /\ voiceActivityBuffer = <<>>
    /\ silentRegions = <<>>
    /\ ri = 1
    /\ lastEnd = 0
    /\ sentences = <<>>
    /\ calls = 0
    /\ returned = <<>>

DetectDecoded ==
    /\ calls = 0
    /\ pc = "idle"
    /\ DetectSentences(AnalysedSamples(options, channelData), 80)

NextDecoded == DetectDecoded \/ ScanWindow \/ ScanEnd \/ BoundaryStep \/ Return

SpecDecoded == InitDecoded /\ [][NextDecoded]_vars

\* -------------------------------------------------------------- the claims

\* A call of detectSentences has returned `sentences`.
Returned == pc = "done"

\* The detector is the class of unnamed/part_000.
IsPart000 == options.variant = "vad"

\* C1: every sentence returned by detection carries a probability that is a
\* defined number p with 0 <= p <= 1 (stated for the class of
\* unnamed/part_000, whose scorer the claim cites).
C1_ProbabilityBounds ==
    (Returned /\ IsPart000) =>
        \A k \in 1..Len(sentences) :
            /\ IsNum(sentences[k].probability)
            /\ sentences[k].probability >= 0
            /\ sentences[k].probability <= 100000

\* C2: in the returned list sentences[i].index = i for every i, also after
\* the short-segment merge has coalesced sentences (the model's sequences are
\* 1-based; stated for the class of unnamed/part_000).
C2_ContiguousIndices ==
    (Returned /\ IsPart000) =>
        \A k \in 1..Len(sentences) : sentences[k].index = k - 1

\* C3: the returned sentences are in time order and never overlap:
\* sentences[i].end <= sentences[i+1].start, for every combination of
\* allowGaps, alignToAudioBoundaries and minSegmentLength.
C3_OrderedNoOverlap ==
    Returned =>
        \A k \in 1..(Len(sentences) - 1) : sentences[k].end <= sentences[k + 1].start

\* C3 witness: with allowGaps false, alignment and a merge pass, a list of at
\* least two sentences is returned whose first sentence ends past the start
\* of the first silent region.
C3_Witness ==
    /\ Returned
    /\ IsPart000
    /\ Len(sentences) >= 2
    /\ ~AllowGaps(options)
    /\ AlignToAudioBoundaries(options)
    /\ MinSegmentLength(options) > 0
    /\ Len(silentRegions) >= 2
    /\ sentences[1].end > silentRegions[1].start

\* The candidate span of iteration k of findSentenceBoundaries runs from the
\* lastEnd of iteration k - 1 to the start of region k; the last candidate
\* span runs to the end of the buffer.
CandidateStart(opt, regions, k) == IF k = 1 THEN 0 ELSE NextLastEnd(opt, regions, k - 1)

CandidateEnd(regions, k, total) == IF k <= Len(regions) THEN regions[k].start ELSE total

\* The candidate spans that are dropped for being shorter than minSentenceLength.
DroppedSpans(opt, regions, total) ==
    { span \in { [start |-> CandidateStart(opt, regions, k),
                  end |-> CandidateEnd(regions, k, total)] :
                 k \in 1..(Len(regions) + 1) } :
        /\ span.end > span.start
        /\ span.end - span.start < opt.minSentenceLength }

\* The instant t lies in the half-open span.
Covers(span, t) == span.start <= t /\ t < span.end

\* The number of sentences, silent regions and dropped spans the instant t lies in.
CoverCount(t) ==
    Cardinality({k \in 1..Len(sentences) : Covers(sentences[k], t)})
    + Cardinality({k \in 1..Len(silentRegions) : Covers(silentRegions[k], t)})
    + Cardinality({d \in DroppedSpans(options, silentRegions,
                                      totalDuration(audio, sampleRate)) : Covers(d, t)})

\* The instants of the buffer where a sentence, a silent region or a dropped
\* span starts or ends, and instant 0: the cover count is constant between
\* two of them.
Breakpoints ==
    LET total == totalDuration(audio, sampleRate)
        dropped == DroppedSpans(options, silentRegions, total)
        pts == {0} \cup {sentences[k].start : k \in 1..Len(sentences)}
                   \cup {sentences[k].end : k \in 1..Len(sentences)}
                   \cup {silentRegions[k].start : k \in 1..Len(silentRegions)}
                   \cup {silentRegions[k].end : k \in 1..Len(silentRegions)}
                   \cup {d.start : d \in dropped} \cup {d.end : d \in dropped}
    IN {t \in pts : 0 <= t /\ t < total}

\* No sentence extends outside [0, totalDuration].
SentencesInBuffer ==
    \A k \in 1..Len(sentences) :
        sentences[k].start >= 0 /\ sentences[k].end <= totalDuration(audio, sampleRate)

\* C4 as stated: for every input and configuration the sentences, the silent
\* regions and the dropped short spans tile [0, totalDuration) exactly, every
\* instant lying in exactly one of them, and no sentence extends outside.
C4_CoverageEveryConfiguration ==
    Returned => (SentencesInBuffer /\ \A t \in Breakpoints : CoverCount(t) = 1)

\* Sentences keep clear of the silent regions: gaps allowed, no alignment, no merge.
KeepsGaps ==
    /\ AllowGaps(options)
    /\ ~AlignToAudioBoundaries(options)
    /\ MinSegmentLength(options) = 0

\* C4, amended: in every configuration the sentences are pairwise disjoint and
\* lie inside [0, totalDuration]; when allowGaps is true, alignToAudioBoundaries
\* false and minSegmentLength 0, the sentences, the silent regions and the
\* dropped short spans tile [0, totalDuration) exactly.
C4_CoverageWithGaps ==
    Returned =>
        /\ SentencesInBuffer
        /\ \A k \in 1..(Len(sentences) - 1) : sentences[k].end <= sentences[k + 1].start
        /\ KeepsGaps => \A t \in Breakpoints : CoverCount(t) = 1

\* C4 witness: gaps are kept and the buffer is tiled by at least two
\* sentences, a silent region and a dropped short span.
C4_Witness ==
    /\ Returned
    /\ IsPart000
    /\ KeepsGaps
    /\ Len(sentences) >= 2
    /\ Len(silentRegions) >= 1
    /\ DroppedSpans(options, silentRegions, totalDuration(audio, sampleRate)) # {}

\* The silent run that is open ends in this step, at a non-silent window or at
\* the end of the buffer, shorter than minSilenceDuration.
ShortRunEnds ==
    /\ pc = "scan"
    /\ currentSilenceStart # Undefined
    /\ currentSilenceStart' = Undefined \/ pc' = "boundaries"
    /\ SamplesToTime(Min(i, audio.len) - currentSilenceStart, sampleRate)
         < options.minSilenceDuration

\* C7: a run of silent windows shorter than minSilenceDuration never produces
\* a silent region, whether it ends at a non-silent window or at the end of
\* the buffer (no region reaches into it), and every region of
\* detectSilentRegions has duration >= minSilenceDuration.
C7_SilenceDurationFilter ==
    /\ [](\A k \in 1..Len(silentRegions) :
              silentRegions[k].duration >= options.minSilenceDuration)
    /\ [][ShortRunEnds =>
            \A k \in 1..Len(silentRegions') :
                silentRegions'[k].end <= SamplesToTime(currentSilenceStart, sampleRate)]_vars

\* C7 witness: the buffer holds a single silent chunk between two voiced
\* ones, shorter than minSilenceDuration; the scan is over and has kept a
\* region, but none over that chunk.
C7_Witness ==
    /\ pc = "boundaries"
    /\ IsPart000
    /\ Len(silentRegions) >= 1
    /\ \E c \in 2..(Len(audio.kinds) - 1) :
          /\ audio.kinds[c - 1] = "V" /\ audio.kinds[c] = "Z" /\ audio.kinds[c + 1] = "V"
          /\ SamplesToTime(ChunkSamples, sampleRate) < options.minSilenceDuration
          /\ \A k \in 1..Len(silentRegions) :
                ~Covers(silentRegions[k], SamplesToTime((c - 1) * ChunkSamples, sampleRate))

\* C5: detection keeps no state between calls: two calls on the same detector
\* with the same samples and sample rate return the same sentence list,
\* whatever was analysed before or in between.
C5_Deterministic ==
    \A m, n \in 1..Len(returned) :
        (returned[m].audio = returned[n].audio /\ returned[m].sampleRate = returned[n].sampleRate)
            => returned[m].sentences = returned[n].sentences

\* C5 witness: a buffer is analysed a second time, after a different buffer
\* whose last windows were silent, and with a smoothing buffer of two decisions.
C5_Witness ==
    /\ Len(returned) = 3
    /\ returned[1].audio = returned[3].audio
    /\ returned[2].audio # returned[1].audio
    /\ returned[2].audio.kinds[Len(returned[2].audio.kinds)] = "Z"
    /\ returned[3].audio.kinds[1] = "V"
    /\ Len(returned[3].sentences) >= 1
    /\ smoothingBufferSize(options, sampleRate) = 2
    /\ IsPart000

\* C6: the short-segment merge is idempotent: applied to its own result it
\* returns that result, with the same number of sentences and the same start,
\* end, duration and probability for each.
C6_MergeIdempotent ==
    pc = "mergedTwice" => returned[2].sentences = returned[1].sentences

\* C6 witness: the first pass has merged sentences and left more than one,
\* the last of them shorter than minSegmentLength, and the second pass is over.
C6_Witness ==
    /\ pc = "mergedTwice"
    /\ Len(returned[1].sentences) >= 2
    /\ \E k \in 1..Len(returned[1].sentences) :
          returned[1].sentences[k].duration > Sec(300)
    /\ returned[1].sentences[Len(returned[1].sentences)].duration < MinSegmentLength(options)

\* The detector has the default options (and the scenarios' window).
DefaultDetector == options = Constructor(options.variant, ScenarioOptions)

\* C8: Scenario A with default options returns exactly 2 sentences, the
\* boundary between them within one window of t = 3.0 s, both with
\* probability > 0.3 (stated for the class of unnamed/part_000).
C8_ScenarioA ==
    (Returned /\ IsPart000 /\ DefaultDetector /\ audio = ScenarioA) =>
        /\ Len(sentences) = 2
        /\ Abs(sentences[1].end - Sec(3000)) <= SamplesToTime(options.windowSize, sampleRate)
        /\ \A k \in 1..2 : FGt(sentences[k].probability, 30000)

\* Every analysis window of the buffer has an RMS below silenceThreshold.
AllSilent ==
    \A w \in 0..((audio.len - 1) \div options.windowSize) :
        FLt(RMS(audio, w * options.windowSize,
                Min((w + 1) * options.windowSize, audio.len)),
            options.silenceThreshold)

\* C9 as stated: a buffer whose every window is silent yields an empty list,
\* for any length and any configuration with alignToAudioBoundaries false.
C9_SilentBufferAnyConfiguration ==
    (Returned /\ audio.len > 0 /\ AllSilent /\ ~AlignToAudioBoundaries(options))
        => sentences = <<>>

\* C9, amended: a buffer whose every window is silent yields an empty list
\* when alignToAudioBoundaries is false and the buffer lasts at least
\* minSilenceDuration or less than minSentenceLength.
C9_SilentBufferEmpty ==
    (/\ Returned /\ audio.len > 0 /\ AllSilent /\ ~AlignToAudioBoundaries(options)
     /\ \/ totalDuration(audio, sampleRate) >= options.minSilenceDuration
        \/ totalDuration(audio, sampleRate) < options.minSentenceLength)
        => sentences = <<>>

\* C9 witness: the stated instance, 5 s of silence with default options, has
\* been analysed: the whole buffer is one silent region, and no sentence.
C9_Witness ==
    /\ Returned
    /\ IsPart000
    /\ DefaultDetector
    /\ audio = ScenarioB
    /\ AllSilent
    /\ Len(silentRegions) = 1
    /\ sentences = <<>>

\* ceil(a / b) for positive b.
CeilDiv(a, b) == (a + b - 1) \div b

\* C10: when the buffer holds no silent region and its duration D exceeds
\* maxSentenceLength, detection returns exactly ceil(D / maxSentenceLength)
\* sentences of equal length D / ceil(D / maxSentenceLength) (stated for
\* the class of unnamed/part_000).
C10_SplitWithoutSilence ==
    (/\ Returned /\ IsPart000
     /\ Len(silentRegions) = 0
     /\ totalDuration(audio, sampleRate) > options.maxSentenceLength)
        => LET D == totalDuration(audio, sampleRate)
               n == CeilDiv(D, options.maxSentenceLength)
           IN /\ Len(sentences) = n
              /\ \A k \in 1..Len(sentences) : n * sentences[k].duration = D

\* A configuration is valid: windowSize is a positive power of two and
\* minSentenceLength <= maxSentenceLength.
ValidConfiguration(opt) ==
    /\ IsPow2(opt.windowSize)
    /\ opt.minSentenceLength <= opt.maxSentenceLength

\* C11: a construction with an invalid configuration fails: no detector with
\* a windowSize that is no positive power of two, or with minSentenceLength >
\* maxSentenceLength, exists once the constructor has run, nor at call time.
C11_NoInvalidDetector ==
    pc # "new" => ValidConfiguration(options)

\* C12: for a zero-length sample buffer detection returns an empty sentence
\* list, for every configuration.
C12_EmptyBufferEmptyList ==
    (Returned /\ audio.len = 0) => sentences = <<>>

\* C13: with alignToAudioBoundaries set, the list returned for a non-empty
\* buffer is never empty: its first sentence starts at 0, its last sentence
\* ends at totalDuration with its duration recomputed, and when the boundary
\* builder produced no sentence it is one sentence over [0, totalDuration].
C13_AlignedListNeverEmpty ==
    (Returned /\ AlignToAudioBoundaries(options) /\ audio.len > 0) =>
        /\ Len(sentences) >= 1
        /\ sentences[1].start = 0
        /\ sentences[Len(sentences)].end = totalDuration(audio, sampleRate)
        /\ sentences[Len(sentences)].duration
             = sentences[Len(sentences)].end - sentences[Len(sentences)].start

\* The options a class knows, among those with a documented default.
KnownOptions(variant) ==
    {"minSilenceDuration", "silenceThreshold", "minSentenceLength", "maxSentenceLength",
     "windowSize"}
    \cup (IF variant = "rms" THEN {}
          ELSE {"allowGaps", "minSegmentLength", "alignToAudioBoundaries"})

\* C14: the constructor stores every option the caller supplies as supplied,
\* 0 and false included, and gives every omitted option its default.
C14_OptionsStoredAsSupplied ==
    (pc # "new" /\ supplied.variant = options.variant) =>
        \A name \in KnownOptions(options.variant) :
            options[name]
                = IF supplied[name] # Undefined THEN supplied[name] ELSE DefaultOptions[name]

\* C16: the smoothing buffer has capacity at least 1: once a window's decision
\* is pushed the buffer is not empty and the smoothed ratio is a number in
\* [0, 1]; a window whose own decision and whose predecessors in the buffer
\* are all true, with RMS >= silenceThreshold, is classified non-silent
\* (stated for the class of unnamed/part_000).
C16_SmoothingCapacity ==
    (pc = "scan" /\ i > 0 /\ IsPart000) =>
        LET lo == i - options.windowSize
            hi == Min(i, audio.len)
        IN /\ Len(voiceActivityBuffer) >= 1
           /\ IsNum(voiceActivityRatio(voiceActivityBuffer))
           /\ (/\ isVoiceSegment(options, fftBuffers, audio, lo, hi)
               /\ \A k \in 1..Len(voiceActivityBuffer) : voiceActivityBuffer[k]
               /\ ~FLt(RMS(audio, lo, hi), options.silenceThreshold))
                  => currentSilenceStart = Undefined

\* C15: convertToMono returns, for two or more channels, a sequence of the
\* length of the channels whose element at each index is the arithmetic mean
\* of the channels' samples at that index; a single channel is returned as
\* it is.
C15_MonoIsChannelMean ==
    pc = "mono" =>
        IF Len(channelData) = 1 THEN monoData = channelData[1]
        ELSE /\ Len(monoData) = Len(channelData[1])
             /\ \A k \in 1..Len(monoData) :
                    monoData[k] * Len(channelData)
                        = SumSeq([c \in 1..Len(channelData) |-> channelData[c][k]],
                                 Len(channelData))

\* Two channels that differ at the first sample have been converted.
C15_Witness ==
    /\ pc = "mono"
    /\ Len(channelData) >= 2
    /\ Len(monoData) >= 1
    /\ channelData[1][1] # channelData[2][1]
    /\ monoData[1] # 0

\* The gaps of sound between consecutive regions of a list that are shorter
\* than the merge gap of 0.3 s, as indices of the region before the gap.
CloseGaps(regions) ==
    {k \in 1..(Len(regions) - 1) : regions[k + 1].start - regions[k].end < MergeGap}

\* C17, as stated: the merge pass is not transitive; of three regions whose
\* two gaps are both shorter than 0.3 s, mergeCloseRegions returns the merge
\* of the first two and the third as separate regions.
C17_MergeNotTransitive ==
    (pc = "regionsMerged" /\ Len(returned[1].regions) = 3
        /\ CloseGaps(returned[1].regions) = {1, 2}) =>
        /\ Len(silentRegions) = 2
        /\ silentRegions[1].start = returned[1].regions[1].start
        /\ silentRegions[1].end = returned[1].regions[2].end
        /\ silentRegions[2] = returned[1].regions[3]

\* C17, amended: the merged region is compared with the region after it, so
\* the pass merges every chain of regions whose consecutive gaps are shorter
\* than 0.3 s: the result has one region less per such gap, no two
\* consecutive regions of the result are closer than 0.3 s, and three
\* regions whose two gaps are both shorter than 0.3 s become one region from
\* the start of the first to the end of the third.
C17_MergeChains ==
    pc = "regionsMerged" =>
        LET regions == returned[1].regions
        IN /\ Len(silentRegions) = Len(regions) - Cardinality(CloseGaps(regions))
           /\ CloseGaps(silentRegions) = {}
           /\ (Len(regions) = 3 /\ CloseGaps(regions) = {1, 2}) =>
                  /\ Len(silentRegions) = 1
                  /\ silentRegions[1].start = regions[1].start
                  /\ silentRegions[1].end = regions[3].end
                  /\ silentRegions[1].duration = regions[3].end - regions[1].start

\* Three regions with two gaps shorter than 0.3 s have been merged.
C17_Witness ==
    /\ pc = "regionsMerged"
    /\ Len(returned[1].regions) = 3
    /\ CloseGaps(returned[1].regions) = {1, 2}
    /\ Len(silentRegions) = 1

\* C18: every silent region that detectSilentRegions returns, after the
\* merge, has end > start and duration = end - start and lies within
\* [0, totalDuration], and each region ends before the next one starts.
C18_RegionsWellFormed ==
    pc \in {"boundaries", "done"} =>
        \A k \in 1..Len(silentRegions) :
            /\ silentRegions[k].end > silentRegions[k].start
            /\ silentRegions[k].duration = silentRegions[k].end - silentRegions[k].start
            /\ silentRegions[k].start >= 0
            /\ silentRegions[k].end <= totalDuration(audio, sampleRate)
            /\ k < Len(silentRegions) => silentRegions[k].end < silentRegions[k + 1].start

\* A returned region that is the merge of two runs of silence: it holds a
\* voiced chunk.
C18_Witness ==
    /\ pc = "boundaries"
    /\ IsPart000
    /\ \E k \in 1..Len(silentRegions), c \in 1..Len(audio.kinds) :
          /\ audio.kinds[c] = "V"
          /\ silentRegions[k].start < SamplesToTime((c - 1) * ChunkSamples, sampleRate)
          /\ SamplesToTime(c * ChunkSamples, sampleRate) < silentRegions[k].end

\* The loop of findSentenceBoundaries has just handled region ri - 1, a
\* region follows it, gaps are not allowed, and the last sentence of the
\* list was emitted for that region: it ends where lastEnd now is.
EmittedBeforeGap ==
    /\ pc = "boundaries"
    /\ ~AllowGaps(options)
    /\ ri > 1
    /\ ri - 1 < Len(silentRegions)
    /\ sentences # <<>>
    /\ sentences[Len(sentences)].end = lastEnd

\* C19, as stated: with allowGaps false the end of a sentence emitted for a
\* region that has a successor lies inside that region,
\* region.start <= end <= region.end.
C19_EndInsideSilence ==
    EmittedBeforeGap =>
        /\ silentRegions[ri - 1].start <= sentences[Len(sentences)].end
        /\ sentences[Len(sentences)].end <= silentRegions[ri - 1].end

\* C19, amended: with allowGaps false the end of a sentence emitted for a
\* region that has a successor is the midpoint between the region's end and
\* the next region's start: it lies after the whole silent region, which the
\* sentence covers, halfway through the sound that follows it; the sentence
\* of the next candidate, if one is emitted, starts at that same instant.
C19_EndAtGapMiddle ==
    /\ EmittedBeforeGap =>
          LET region == silentRegions[ri - 1]
              nextRegion == silentRegions[ri]
              sentence == sentences[Len(sentences)]
          IN /\ region.end < sentence.end
             /\ sentence.end < nextRegion.start
             /\ sentence.end - region.end = nextRegion.start - sentence.end
             /\ sentence.start <= region.start
    /\ (pc = "boundaries" /\ ~AllowGaps(options)) =>
          \A j \in 1..(Len(sentences) - 1), k \in 1..(Len(silentRegions) - 1) :
              (/\ silentRegions[k].end < sentences[j].end
               /\ sentences[j].end < silentRegions[k + 1].start
               /\ sentences[j + 1].start < silentRegions[k + 1].start)
                  => sentences[j + 1].start = sentences[j].end

\* A sentence has been emitted for a region with a successor, gaps not
\* allowed, and so has the sentence of the next candidate.
C19_Witness ==
    /\ pc = "boundaries"
    /\ ~AllowGaps(options)
    /\ Len(silentRegions) >= 2
    /\ Len(sentences) >= 2
    /\ silentRegions[1].end < sentences[1].end
    /\ sentences[2].start = sentences[1].end
    /\ sentences[2].start < silentRegions[2].start

\* A step of the loop of findSentenceBoundaries on a region whose candidate
\* span [lastEnd, region.start) is longer than maxSentenceLength.
SplitStep ==
    /\ pc = "boundaries"
    /\ ri <= Len(silentRegions)
    /\ ri' = ri + 1
    /\ silentRegions[ri].start - lastEnd > options.maxSentenceLength

\* The sentences the step emits, and what the claim says of all the parts but
\* the duration of the last: there are n = ceil(d / maxSentenceLength) of
\* them, the first starts at lastEnd, each next one starts where the one
\* before it ends, every part but the last lasts d / n, and with allowGaps
\* true the last part ends at region.start.
SplitTiles ==
    LET d == silentRegions[ri].start - lastEnd
        n == CeilDiv(d, options.maxSentenceLength)
        part == [p \in 1..(Len(sentences') - Len(sentences)) |-> sentences'[Len(sentences) + p]]
    IN /\ Len(part) = n
       /\ SubSeq(sentences', 1, Len(sentences)) = sentences
       /\ part[1].start = lastEnd
       /\ \A p \in 1..(n - 1) :
             /\ part[p + 1].start = part[p].end
             /\ part[p].duration * n = d
             /\ part[p].duration <= options.maxSentenceLength
       /\ \A p \in 1..n : part[p].duration = part[p].end - part[p].start
       /\ AllowGaps(options) => part[n].end = silentRegions[ri].start

ShortSpanStep ==
    /\ pc = "boundaries"
    /\ ri <= Len(silentRegions)
    /\ ri' = ri + 1
    /\ silentRegions[ri].start - lastEnd > 0
    /\ silentRegions[ri].start - lastEnd < options.minSentenceLength

\* C21: a candidate span shorter than minSentenceLength emits no sentence and
\* is absorbed into the next candidate: lastEnd is left where it was, so the
\* next candidate starts at the start of the dropped span.
C21_ShortSpanAbsorbed ==
    [][ShortSpanStep => (sentences' = sentences /\ lastEnd' = lastEnd)]_vars

\* The list `out` is the list `in` cut into consecutive groups, group j
\* starting at the sentence first[j], as C22 describes them: out[j] spans its
\* group from the first member's start to the last member's end, with the
\* mean of the members' probabilities, and a group whose durations so far,
\* plus that of the next sentence, do not exceed minLen holds that sentence.
GroupedAt(in, out, first, minLen) ==
    /\ Len(out) >= 1
    /\ first[1] = 1
    /\ \A j \in 1..(Len(out) - 1) : first[j] < first[j + 1]
    /\ \A j \in 1..Len(out) :
          LET lo == first[j]
              hi == IF j = Len(out) THEN Len(in) ELSE first[j + 1] - 1
              durations == [k \in 1..Len(in) |-> IF k < lo THEN 0 ELSE in[k].duration]
              probabilities == [k \in 1..Len(in) |-> IF k < lo THEN 0 ELSE in[k].probability]
          IN /\ out[j].start = in[lo].start
             /\ out[j].end = in[hi].end
             /\ out[j].duration = out[j].end - out[j].start
             /\ out[j].probability = SumSeq(probabilities, hi) \div (hi - lo + 1)
             /\ \A k \in lo..hi :
                   (k < Len(in) /\ SumSeq(durations, k) + in[k + 1].duration <= minLen)
                       => k + 1 <= hi

\* C22: mergeShortSegments cuts its input, in order, into consecutive groups
\* that hold every sentence exactly once; a pending group absorbs the next
\* sentence while the durations together do not exceed minSegmentLength;
\* each output sentence spans its group, duration = end - start, with the
\* arithmetic mean of the members' probabilities.
C22_MergePartitions ==
    [][(pc \in {"merge", "merged"} /\ pc' # pc) =>
          \E first \in [1..Len(sentences') -> 1..Len(sentences)] :
              GroupedAt(sentences, sentences', first, MinSegmentLength(options))]_vars

\* The first pass has returned two sentences or more, one of them a group of
\* several (it is longer than any sentence of the input).
C22_Witness ==
    /\ pc = "merged"
    /\ Len(sentences) >= 2
    /\ \E k \in 1..Len(sentences) : sentences[k].duration > Sec(300)
    /\ \E k \in 1..Len(sentences) : sentences[k].duration <= Sec(300)

\* C23: a window is voiced exactly when
\* 0.3 zcrScore + 0.3 centroidScore + 0.2 formantScore + 0.2 voiceBandScore
\* exceeds 0.6, where formantScore is a third of the number of formants above
\* 0.1 (both sides multiplied by 300).
C23_VoiceWeights ==
    pc = "decided" =>
        (voiceActivityBuffer[1]
            <=> 90 * scores.zcr + 90 * scores.centroid + 20 * scores.formants
                    + 60 * scores.energy > 180)

\* C24: for the window the scan is about to analyse, when the total energy of
\* its spectrum is 0 the spectral centroid, each normalised formant energy
\* and the voice-band energy ratio are 0, and no feature is NaN; the
\* zero-crossing rate of a window of one sample is defined.
C24_ZeroEnergyNeutral ==
    (pc = "scan" /\ i < audio.len /\ IsPart000) =>
        LET windowEnd == Min(i + options.windowSize, audio.len)
            mags == performFFT(audio, i, windowEnd)
        IN /\ MagSum(mags) = 0 =>
                 /\ calculateSpectralCentroid(mags) = 0
                 /\ \A f \in 1..3 : detectFormants(mags)[f] = 0
                 /\ calculateVoiceBandEnergy(options, mags) = 0
           /\ windowEnd - i = 1 => IsNum(calculateZeroCrossingRate(audio, i, windowEnd))

\* C25: the samples that detection analyses are the mean over all the
\* channels of the decoded audio: in every chunk the amplitude analysed,
\* times the number of channels, is the sum of the channels' amplitudes.
C25_AnalysedSamplesAreMono ==
    (pc # "idle" /\ channelData # <<>>) =>
        /\ audio.len = channelData[1].len
        /\ \A c \in 1..Len(audio.kinds) :
              Amp(audio.kinds[c]) * Len(channelData)
                  = SumSeq([ch \in 1..Len(channelData) |-> Amp(channelData[ch].kinds[c])],
                           Len(channelData))

\* C26: with minSegmentLength = 0 and alignToAudioBoundaries false no
\* returned sentence is longer than maxSentenceLength, whatever allowGaps is,
\* the trailing sentence included.
C26_NoSentenceOverMax ==
    (Returned /\ MinSegmentLength(options) = 0 /\ ~AlignToAudioBoundaries(options)) =>
        \A k \in 1..Len(sentences) : sentences[k].duration <= options.maxSentenceLength

\* C27: with alignToAudioBoundaries false and minSentenceLength <=
\* maxSentenceLength every returned sentence lasts at least
\* minSentenceLength, the parts of a split span included.
C27_NoSentenceUnderMin ==
    (Returned /\ ~AlignToAudioBoundaries(options)
        /\ options.minSentenceLength <= options.maxSentenceLength) =>
        \A k \in 1..Len(sentences) : sentences[k].duration >= options.minSentenceLength

\* C28: every sentence returned by detectSentences has end > start and
\* duration = end - start, after boundary construction, splitting, merging
\* and alignment (stated for the class of unnamed/part_000).
C28_SentencesWellFormed ==
    (Returned /\ IsPart000) =>
        \A k \in 1..Len(sentences) :
            /\ sentences[k].end > sentences[k].start
            /\ sentences[k].duration = sentences[k].end - sentences[k].start


\* C29: after mergeShortSegments with minSegmentLength > 0 on a time-ordered
\* list of non-overlapping sentences of positive duration, every sentence of
\* the result except possibly the last lasts minSegmentLength or longer.
C29_OnlyLastMayBeShort ==
    (pc \in {"merged", "mergedTwice"} /\ MinSegmentLength(options) > 0) =>
        \A k \in 1..(Len(sentences) - 1) :
            sentences[k].duration >= MinSegmentLength(options)

\* The first pass has closed a group of several sentences that was shorter
\* than minSegmentLength with the sentence after it, and has left a last
\* sentence shorter than minSegmentLength.
C29_Witness ==
    /\ pc = "merged"
    /\ Len(sentences) >= 2
    /\ sentences[1].duration > Sec(300)
    /\ sentences[1].duration > MinSegmentLength(options)
    /\ sentences[Len(sentences)].duration < MinSegmentLength(options)


\* The windows of the voice analysis of sentence s that are not empty.
ScorerWindows(a, sr, s) ==
    LET ssi == SampleIndex(s.start, sr)
        esi == SampleIndex(s.end, sr)
        wins == {StartWindow(a, sr, ssi, esi, k) : k \in 0..2}
                    \cup {EndWindow(a, sr, ssi, esi, k) : k \in 0..2}
    IN {w \in wins : w[2] > w[1]}

\* C30: every window handed to isVoiceSegment, and so to performFFT, has a
\* length that is a power of two: the window the silence scan is about to
\* analyse, the truncated last window of the buffer included, and the start
\* and end windows of the voice analysis of every sentence scored.
C30_WindowsArePowersOfTwo ==
    /\ (pc = "scan" /\ i < audio.len /\ IsPart000) =>
           IsPow2(Min(i + options.windowSize, audio.len) - i)
    /\ (pc = "boundaries" /\ IsPart000) =>
           \A k \in 1..Len(sentences) :
               \A w \in ScorerWindows(audio, sampleRate, sentences[k]) : IsPow2(w[2] - w[1])

====
